---- MODULE Spec2Model ----
(***************************************************************************)
(* State-machine model of the AEM MCP server: the credential provider,     *)
(* the CSRF-token cache, the request executor (aemRequest / aemFormPost),  *)
(* the diagnostic check and the tool handlers that wrap client results.    *)
(*                                                                         *)
(* Granularity.  The program runs on one JavaScript event loop: code       *)
(* between two network events runs without interruption.  Every action     *)
(* below is therefore one such run: it starts at a tool invocation or at   *)
(* the arrival of a response (headers and body) and runs the handler up to *)
(* the next outbound request or up to the handler's return.                *)
(***************************************************************************)
EXTENDS Integers, Sequences, FiniteSets, TLC

\* ------------------------------------------------------------------------
\* Bounds of the model
\* ------------------------------------------------------------------------
NumProcs == 2          \* tool invocations that may be in flight at once
MaxTicks == 1          \* clock advances per behaviour

Procs == 1..NumProcs

\* The clock advances by 61 seconds at a time (milliseconds).
TickSteps == {61000}

\* Values the identity endpoint may return.
AccessTokens == {"at1", "at2"}
ExpiresIn == {30, 120}

\* Values the CSRF endpoint may return.
CsrfTokens == {"ct1", "ct2"}

\* ------------------------------------------------------------------------
\* Tools and the client function each handler calls
\* ------------------------------------------------------------------------
Tools ==
  {"aem_check_connection", "aem_get_page", "aem_list_pages", "aem_create_page",
   "aem_update_page", "aem_delete_page", "aem_replicate_page", "aem_search",
   "aem_get_asset", "aem_list_assets", "aem_get_asset_renditions",
   "aem_get_content_fragment", "aem_list_content_fragments",
   "aem_create_content_fragment", "aem_update_content_fragment"}

ClientFn(tool) ==
  CASE tool = "aem_check_connection" -> "checkConnection"
    [] tool = "aem_get_page" -> "getPage"
    [] tool = "aem_list_pages" -> "listPages"
    [] tool = "aem_create_page" -> "createPage"
    [] tool = "aem_update_page" -> "updatePageProperties"
    [] tool = "aem_delete_page" -> "deletePage"
    [] tool = "aem_replicate_page" -> "replicatePage"
    [] tool = "aem_search" -> "searchContent"
    [] tool = "aem_get_asset" -> "getAsset"
    [] tool = "aem_list_assets" -> "listAssets"
    [] tool = "aem_get_asset_renditions" -> "getAssetRenditions"
    [] tool = "aem_get_content_fragment" -> "getContentFragment"
    [] tool = "aem_list_content_fragments" -> "listContentFragments"
    [] tool = "aem_create_content_fragment" -> "createContentFragment"
    [] tool = "aem_update_content_fragment" -> "updateContentFragment"

\* Client functions that post a form through aemFormPost.
FormPostFns ==
  {"createPage", "updatePageProperties", "deletePage",
   "createContentFragment", "replicatePage"}

\* Form posts that return response.json(); the others return {success: true}.
FormJsonFns == {"createPage", "createContentFragment"}

\* HTTP method of the content request a client function issues.
MethodOf(fn) ==
  IF fn \in FormPostFns THEN "POST"
  ELSE IF fn = "updateContentFragment" THEN "PUT"
  ELSE "GET"

\* One request tool per distinct client path is driven by the model; the
\* remaining request tools run the same code as aem_get_page (a GET through
\* aemRequest), aem_create_page or aem_update_page.
RequestTools ==
  {"aem_get_page", "aem_create_page", "aem_update_page",
   "aem_update_content_fragment"}

\* ------------------------------------------------------------------------
\* Configuration (process.env), fixed for a behaviour
\* ------------------------------------------------------------------------
EnvValues(v) == {"", v}

Envs ==
  { e \in [AEM_BASE_URL : EnvValues("http://aem"),
           AEM_AUTH_TYPE : {"basic", "token"},
           AEM_USERNAME : EnvValues("admin"),
           AEM_PASSWORD : EnvValues("secret"),
           AEM_CLIENT_ID : EnvValues("id"),
           AEM_CLIENT_SECRET : EnvValues("cs"),
           AEM_SCOPES : EnvValues("scope"),
           AEM_ACCESS_TOKEN : EnvValues("static")] :
      \* settings the active mode never reads are left unset
      IF e.AEM_AUTH_TYPE = "basic"
      THEN e.AEM_CLIENT_ID = "" /\ e.AEM_CLIENT_SECRET = ""
           /\ e.AEM_SCOPES = "" /\ e.AEM_ACCESS_TOKEN = ""
      ELSE e.AEM_USERNAME = "" /\ e.AEM_PASSWORD = "" }

\* ------------------------------------------------------------------------
\* State
\* ------------------------------------------------------------------------
VARIABLES
  env,             \* process.env
  now,             \* Date.now(), milliseconds
  ticks,           \* clock advances so far
  accessToken,     \* let accessToken
  tokenExpiresAt,  \* let tokenExpiresAt
  csrfToken,       \* let csrfToken
  proc,            \* per invocation slot: position, locals, outstanding request
  returned,        \* the envelope a handler returned in the last step, if any
  delivered,       \* history: the response that arrived in the last step, if any
  lastExchange     \* history: the last successful identity exchange

vars == <<env, now, ticks, accessToken, tokenExpiresAt, csrfToken, proc, returned,
          delivered, lastExchange>>

NoAuth == [scheme |-> "", token |-> "", user |-> "", pass |-> ""]
\* An outbound request: URL path, method, Authorization, CSRF-Token header,
\* query string (URLSearchParams) and form body (URLSearchParams).
Req(url, method, auth, csrfHeader, query, form) ==
  [url |-> url, method |-> method, auth |-> auth, csrfHeader |-> csrfHeader,
   query |-> query, form |-> form]

NoReq == Req("", "", NoAuth, "", <<>>, <<>>)

\* JavaScript values of the tool arguments.
Undefined == [t |-> "undefined", s |-> "", n |-> 0]
Str(x) == [t |-> "string", s |-> x, n |-> 0]
Num(k) == [t |-> "number", s |-> "", n |-> k]

\* The arguments of an invocation: a path-like first argument, an optional
\* second one, and an object argument as its entries in insertion order.
Args(a1, a2, params) == [a1 |-> a1, a2 |-> a2, params |-> params]
NoArgs == Args(Undefined, Undefined, <<>>)
NoErr == [msg |-> "", status |-> 0, statusText |-> "", body |-> ""]
NoPayload == [type |-> "none", val |-> "", path |-> "", report |-> <<>>]
NoResult == [isError |-> FALSE, prefix |-> "", format |-> "none", err |-> NoErr, data |-> NoPayload]

IdleProc ==
  [pc |-> "idle", tool |-> "", args |-> NoArgs, ctx |-> "", csrf |-> "", probe |-> 0,
   report |-> <<>>, req |-> NoReq,
   sentAt |-> 0,  \* history: when the outstanding request left
   fetch |-> ""]  \* history: how this invocation's fetchCsrfToken() ended

NoExchange == [done |-> FALSE, at |-> 0, access_token |-> "", expires_in |-> 0]

NoReturn == [tool |-> "", threw |-> FALSE, result |-> NoResult]

NoDelivery ==
  [from |-> "", slot |-> 0, tool |-> "", kind |-> "", status |-> 0, statusText |-> "",
   contentType |-> "", body |-> ""]

\* The response r of endpoint `from` reached slot p.
Delivery(from, p, r) ==
  [from |-> from, slot |-> p, tool |-> proc[p].tool, kind |-> r.kind, status |-> r.status,
   statusText |-> r.statusText, contentType |-> r.contentType, body |-> r.body]

\* The mutable program state as one record, threaded through a handler run.
Cur ==
  [accessToken |-> accessToken, tokenExpiresAt |-> tokenExpiresAt,
   csrfToken |-> csrfToken, proc |-> proc, returned |-> NoReturn]

Commit(st) ==
  /\ accessToken' = st.accessToken
  /\ tokenExpiresAt' = st.tokenExpiresAt
  /\ csrfToken' = st.csrfToken
  /\ proc' = st.proc
  /\ returned' = st.returned

\* ------------------------------------------------------------------------
\* Errors, payloads and result envelopes
\* ------------------------------------------------------------------------
Err(msg, status, statusText, body) ==
  [msg |-> msg, status |-> status, statusText |-> statusText, body |-> body]

ErrBaseUrl == Err("AEM_BASE_URL is not set", 0, "", "")
ErrBasic == Err("AEM_USERNAME and AEM_PASSWORD are required", 0, "", "")
ErrImsConfig == Err("AEM_CLIENT_ID, AEM_CLIENT_SECRET, and AEM_SCOPES are required", 0, "", "")
ErrNetwork == Err("fetch failed", 0, "", "")
ErrJson == Err("Unexpected token in JSON", 0, "", "")

ConfigErrors == {ErrBaseUrl, ErrBasic, ErrImsConfig}

\* tools.ts: textResult(data)
textResult(data) ==
  [isError |-> FALSE, prefix |-> "",
   format |-> IF data.type = "string" THEN "literal" ELSE "json-indent-2",
   err |-> NoErr, data |-> data]

\* tools.ts: errorResult(message), called with String(err)
errorResult(err) ==
  [isError |-> TRUE, prefix |-> "Error: ", format |-> "literal",
   err |-> err, data |-> NoPayload]

\* The handler returned: its locals are gone and the envelope is handed to
\* the protocol layer.
Returned(st, p, threw, envelope) ==
  [st EXCEPT !.proc[p] = IdleProc,
             !.returned = [tool |-> st.proc[p].tool, threw |-> threw,
                           result |-> envelope]]

\* Mutant: the catch branch forgets the error envelope and returns the
\* message as an ordinary text result.
ClientThrewAsText(st, p, e) ==
  Returned(st, p, TRUE,
           textResult([type |-> "string", val |-> e.msg, path |-> "", report |-> <<>>]))

\* Handler catch branch: the client call threw.
ClientThrew(st, p, e) == Returned(st, p, TRUE, errorResult(e))

\* Handler try branch: the client call returned.
ClientReturned(st, p, d) == Returned(st, p, FALSE, textResult(d))

\* ------------------------------------------------------------------------
\* Pure helpers of the credential provider and the executor
\* ------------------------------------------------------------------------
\* getBaseUrl(): throws when AEM_BASE_URL is unset.
getBaseUrlThrows == env.AEM_BASE_URL = ""

\* Mutant: the token is kept for the very millisecond it expires.
NeedsRefreshLate(token, expiresAt, t) == token = "" \/ t > expiresAt

\* ensureValidToken(): !accessToken || Date.now() >= tokenExpiresAt
NeedsRefresh(token, expiresAt, t) == token = "" \/ t >= expiresAt

\* refreshAccessToken(): Date.now() + (data.expires_in - 60) * 1000
ExpiryOf(t, expires_in) == t + (expires_in - 60) * 1000

\* refreshAccessToken(): the settings guard before the exchange
ImsConfigMissing ==
  env.AEM_CLIENT_ID = "" \/ env.AEM_CLIENT_SECRET = "" \/ env.AEM_SCOPES = ""

\* Mutant: the guard fires only when both settings are unset.
BasicConfigMissingBoth == env.AEM_USERNAME = "" /\ env.AEM_PASSWORD = ""

\* getAuthHeader(): the settings guard of basic mode
BasicConfigMissing == env.AEM_USERNAME = "" \/ env.AEM_PASSWORD = ""

BearerHeader(token) == [scheme |-> "Bearer", token |-> token, user |-> "", pass |-> ""]
BasicHeader ==
  [scheme |-> "Basic", token |-> "", user |-> env.AEM_USERNAME, pass |-> env.AEM_PASSWORD]

\* aemRequest(): method !== 'GET' && method !== 'HEAD'
IsMutation(method) == method # "GET" /\ method # "HEAD"

\* aemRequest()/aemFormPost(): ...(csrf ? { 'CSRF-Token': csrf } : {})
CsrfHeader(csrf) == IF csrf # "" THEN csrf ELSE ""

\* String(n) for a non-negative integer.
RECURSIVE NumStr(_)
NumStr(n) ==
  LET digit == <<"0", "1", "2", "3", "4", "5", "6", "7", "8", "9">>
  IN  IF n < 10 THEN digit[n + 1] ELSE NumStr(n \div 10) \o digit[(n % 10) + 1]

\* String(value)
String(v) ==
  CASE v.t = "string" -> v.s
    [] v.t = "number" -> NumStr(v.n)
    [] v.t = "undefined" -> "undefined"

\* if (value): undefined, '' and 0 are falsy
Truthy(v) ==
  CASE v.t = "string" -> v.s # ""
    [] v.t = "number" -> v.n # 0
    [] v.t = "undefined" -> FALSE

\* Mutant: `||` in place of `??`, so 0 and '' take the fallback too.
NullishOr(v, fallback) == IF Truthy(v) THEN v ELSE fallback

\* value ?? fallback
Nullish(v, fallback) == IF v.t = "undefined" THEN fallback ELSE v

\* params[key] of an object given by its entries
Get(entries, key) ==
  IF \E i \in 1..Len(entries) : entries[i].k = key
  THEN entries[CHOOSE i \in 1..Len(entries) : entries[i].k = key].v
  ELSE Undefined

\* URLSearchParams.append(key, value)
QAppend(q, key, value) == Append(q, [k |-> key, v |-> value])

\* URLSearchParams.set(key, value): the first pair of that name takes the
\* value and further pairs of that name are removed; appended if absent.
QSet(q, key, value) ==
  IF \E i \in 1..Len(q) : q[i].k = key
  THEN LET first == CHOOSE i \in 1..Len(q) :
                      q[i].k = key /\ \A j \in 1..(i - 1) : q[j].k # key
           keep == [i \in 1..Len(q) |-> IF i = first THEN [k |-> key, v |-> value] ELSE q[i]]
       IN  SelectSeq(keep, LAMBDA e : e.k # key \/ e.v = value)
  ELSE QAppend(q, key, value)

\* searchContent(): the keys its passthrough loop skips
RecognizedKeys == {"path", "type", "fulltext", "limit", "offset", "orderby"}

\* searchContent(): the passthrough loop over Object.entries(params)
RECURSIVE Passthrough(_, _)
Passthrough(q, entries) ==
  IF entries = <<>> THEN q
  ELSE LET e == Head(entries)
           q1 == IF e.k \notin RecognizedKeys /\ e.v.t # "undefined"
                 THEN QSet(q, e.k, String(e.v))
                 ELSE q
       IN  Passthrough(q1, Tail(entries))

\* searchContent(): `if (params.<key>) query.set(<key>, params.<key>)`
SetIfTruthy(q, params, key) ==
  IF Truthy(Get(params, key)) THEN QSet(q, key, String(Get(params, key))) ELSE q

\* searchContent(): the query it hands to aemRequest
searchContentQuery(params) ==
  LET q1 == QSet(<<>>, "p.limit", String(Nullish(Get(params, "limit"), Num(20))))
      q2 == QSet(q1, "p.offset", String(Nullish(Get(params, "offset"), Num(0))))
      q3 == SetIfTruthy(q2, params, "path")
      q4 == SetIfTruthy(q3, params, "type")
      q5 == SetIfTruthy(q4, params, "fulltext")
      q6 == SetIfTruthy(q5, params, "orderby")
  IN  Passthrough(q6, params)

\* listAssets(): the params it hands to searchContent
listAssetsParams(folderPath) ==
  << [k |-> "path", v |-> folderPath], [k |-> "type", v |-> Str("dam:Asset")],
     [k |-> "limit", v |-> Num(50)] >>

\* Mutant: the model filter is added whenever a model path is given, the
\* empty string included.
listContentFragmentsParamsDefined(folderPath, modelPath) ==
  LET base == << [k |-> "path", v |-> folderPath],
                 [k |-> "type", v |-> Str("dam:Asset")],
                 [k |-> "limit", v |-> Num(50)],
                 [k |-> "property", v |-> Str("jcr:content/contentFragment")],
                 [k |-> "property.value", v |-> Str("true")] >>
  IN  IF modelPath.t # "undefined"
      THEN base \o << [k |-> "property.1_property", v |-> Str("jcr:content/data/cq:model")],
                      [k |-> "property.1_value", v |-> modelPath] >>
      ELSE base

\* listContentFragments(): the params it hands to searchContent
listContentFragmentsParams(folderPath, modelPath) ==
  LET base == << [k |-> "path", v |-> folderPath],
                 [k |-> "type", v |-> Str("dam:Asset")],
                 [k |-> "limit", v |-> Num(50)],
                 [k |-> "property", v |-> Str("jcr:content/contentFragment")],
                 [k |-> "property.value", v |-> Str("true")] >>
  IN  IF Truthy(modelPath)
      THEN base \o << [k |-> "property.1_property", v |-> Str("jcr:content/data/cq:model")],
                      [k |-> "property.1_value", v |-> modelPath] >>
      ELSE base

\* updatePageProperties(): the form it hands to aemFormPost
RECURSIVE AppendDefined(_, _)
AppendDefined(form, entries) ==
  IF entries = <<>> THEN form
  ELSE LET e == Head(entries)
       IN  AppendDefined(IF e.v.t # "undefined" THEN QAppend(form, e.k, String(e.v)) ELSE form,
                         Tail(entries))

\* Mutant: every property becomes a field, the absent ones as "undefined".
updatePagePropertiesFormAll(properties) ==
  << [k |-> "_charset_", v |-> "utf-8"] >>
    \o [i \in 1..Len(properties) |-> [k |-> properties[i].k, v |-> String(properties[i].v)]]

updatePagePropertiesForm(properties) ==
  AppendDefined(<< [k |-> "_charset_", v |-> "utf-8"] >>, properties)

\* The query string of the content request of client function fn.
QueryOf(fn, args) ==
  CASE fn = "searchContent" -> searchContentQuery(args.params)
    [] fn = "listAssets" -> searchContentQuery(listAssetsParams(args.a1))
    [] fn = "listContentFragments" ->
         searchContentQuery(listContentFragmentsParams(args.a1, args.a2))
    [] OTHER -> <<>>

\* The form body of the content request of client function fn; the forms of
\* the other form posts are fixed field lists and are not modelled.
FormOf(fn, args) ==
  IF fn = "updatePageProperties" THEN updatePagePropertiesForm(args.params) ELSE <<>>

ImsUrl == "https://ims-na1.adobelogin.com/ims/token/v3"
CsrfUrl == "/libs/granite/csrf/token.json"

ProbeUrl(k) ==
  CASE k = 1 -> CsrfUrl
    [] k = 2 -> "/libs/granite/security/currentuser.json"
    [] k = 3 -> "/content.1.json"
    [] k = 4 -> "/content/dam.1.json"

ProbeName(k) ==
  CASE k = 1 -> "csrf"
    [] k = 2 -> "currentUser"
    [] k = 3 -> "contentAccess"
    [] k = 4 -> "damAccess"

NumProbes == 4

UrlOf(fn) ==
  CASE fn = "getPage" -> "{path}.infinity.json"
    [] fn = "listPages" -> "{path}.1.json"
    [] fn \in {"createPage", "deletePage"} -> "/bin/wcmcommand"
    [] fn = "updatePageProperties" -> "{path}/jcr:content"
    [] fn \in {"searchContent", "listAssets", "listContentFragments"} -> "/bin/querybuilder.json"
    [] fn = "getAsset" -> "{path}.json"
    [] fn = "getAssetRenditions" -> "{path}/jcr:content/renditions.1.json"
    [] fn = "getContentFragment" -> "/api/assets{path}.json"
    [] fn = "createContentFragment" -> "/api/assets{parent}/{name}"
    [] fn = "updateContentFragment" -> "/api/assets{path}"
    [] fn = "replicatePage" -> "/bin/replicate.json"

\* An outbound request leaves: the slot waits for its response.
Send(st, p, waitPc, request) ==
  [st EXCEPT !.proc[p].pc = waitPc, !.proc[p].req = request,
             !.proc[p].sentAt = now]

\* ------------------------------------------------------------------------
\* The handler run between two network events
\* ------------------------------------------------------------------------
RECURSIVE getAuthHeader(_, _)

\* Mutant: one try block around all probes, so the first caught error ends
\* the check with the entries collected so far.
ProbeDoneFailFast(st, p, entry) ==
  LET k == st.proc[p].probe
      st1 == [st EXCEPT !.proc[p].report = Append(@, entry),
                        !.proc[p].req = NoReq, !.proc[p].sentAt = 0]
  IN  IF k < NumProbes /\ entry.kind # "error"
      THEN getAuthHeader([st1 EXCEPT !.proc[p].probe = k + 1], p)
      ELSE ClientReturned(st1, p,
             [type |-> "object", val |-> "report", path |-> "",
              report |-> st1.proc[p].report])

\* checkConnection(): a probe's try block ended (response handled or error
\* caught); the next probe starts, or the report is returned.
ProbeDone(st, p, entry) ==
  LET k == st.proc[p].probe
      st1 == [st EXCEPT !.proc[p].report = Append(@, entry),
                        !.proc[p].req = NoReq, !.proc[p].sentAt = 0]
  IN  IF k < NumProbes
      THEN getAuthHeader([st1 EXCEPT !.proc[p].probe = k + 1], p)
      ELSE ClientReturned(st1, p,
             [type |-> "object", val |-> "report", path |-> "",
              report |-> st1.proc[p].report])

\* aemRequest() from `const url`, aemFormPost() from its fetch(): the
\* primary call. getBaseUrl() is evaluated before getAuthHeader().
PrimaryCall(st, p) ==
  IF getBaseUrlThrows
  THEN ClientThrew(st, p, ErrBaseUrl)
  ELSE getAuthHeader([st EXCEPT !.proc[p].ctx = "main"], p)

\* getCsrfToken(): return csrfToken, read after fetchCsrfToken() settled.
getCsrfTokenReturn(st, p) ==
  PrimaryCall([st EXCEPT !.proc[p].csrf = st.csrfToken, !.proc[p].req = NoReq,
                         !.proc[p].sentAt = 0], p)

\* fetchCsrfToken(): catch { csrfToken = '' }
fetchCsrfTokenCatch(st, p) ==
  getCsrfTokenReturn([st EXCEPT !.csrfToken = "", !.proc[p].fetch = "failed"], p)

\* getAuthHeader() threw: the caller's catch, or propagation to the handler.
AuthThrew(st, p, e) ==
  CASE st.proc[p].ctx = "csrf" -> fetchCsrfTokenCatch(st, p)
    [] st.proc[p].ctx = "main" -> ClientThrew(st, p, e)
    [] st.proc[p].ctx = "probe" ->
         ProbeDone(st, p, [probe |-> ProbeName(st.proc[p].probe), kind |-> "error",
                           ok |-> FALSE])

\* getAuthHeader() returned h: the caller issues its fetch().
AuthReturned(st, p, h) ==
  LET fn == ClientFn(st.proc[p].tool) IN
  CASE st.proc[p].ctx = "csrf" ->
         Send(st, p, "csrfWait", Req(CsrfUrl, "GET", h, "", <<>>, <<>>))
    [] st.proc[p].ctx = "main" ->
         Send(st, p, "contentWait",
              Req(UrlOf(fn), MethodOf(fn), h, CsrfHeader(st.proc[p].csrf),
                  QueryOf(fn, st.proc[p].args), FormOf(fn, st.proc[p].args)))
    [] st.proc[p].ctx = "probe" ->
         Send(st, p, "probeWait",
              Req(ProbeUrl(st.proc[p].probe), "GET", h, "", <<>>, <<>>))

\* refreshAccessToken() up to its fetch(IMS_TOKEN_URL).
refreshAccessToken(st, p) ==
  IF ImsConfigMissing
  THEN AuthThrew(st, p, ErrImsConfig)
  ELSE Send(st, p, "imsWait", Req(ImsUrl, "POST", NoAuth, "", <<>>, <<>>))

\* ensureValidToken()
ensureValidToken(st, p) ==
  IF NeedsRefresh(st.accessToken, st.tokenExpiresAt, now)
  THEN refreshAccessToken(st, p)
  ELSE AuthReturned(st, p, BearerHeader(st.accessToken))

\* getAuthHeader()
getAuthHeader(st, p) ==
  IF env.AEM_AUTH_TYPE = "token"
  THEN ensureValidToken(st, p)
  ELSE IF BasicConfigMissing
       THEN AuthThrew(st, p, ErrBasic)
       ELSE AuthReturned(st, p, BasicHeader)

\* Mutant: the Authorization header is resolved before the URL is built.
fetchCsrfTokenAuthFirst(st, p) ==
  getAuthHeader([st EXCEPT !.proc[p].ctx = "csrf"], p)

\* fetchCsrfToken() up to its fetch(): getBaseUrl() is evaluated first,
\* inside the try block.
fetchCsrfToken(st, p) ==
  IF getBaseUrlThrows
  THEN fetchCsrfTokenCatch(st, p)
  ELSE getAuthHeader([st EXCEPT !.proc[p].ctx = "csrf"], p)

\* getCsrfToken()
getCsrfToken(st, p) ==
  IF st.csrfToken = ""
  THEN fetchCsrfToken(st, p)
  ELSE getCsrfTokenReturn(st, p)

\* aemRequest() up to its first network event.
aemRequest(st, p) ==
  IF IsMutation(MethodOf(ClientFn(st.proc[p].tool)))
  THEN getCsrfToken(st, p)
  ELSE PrimaryCall([st EXCEPT !.proc[p].csrf = ""], p)

\* aemFormPost() up to its first network event.
aemFormPost(st, p) == getCsrfToken(st, p)

\* checkConnection() up to its first network event.
checkConnection(st, p) ==
  IF getBaseUrlThrows
  THEN ClientThrew(st, p, ErrBaseUrl)
  ELSE getAuthHeader([st EXCEPT !.proc[p].ctx = "probe", !.proc[p].probe = 1], p)

\* The tool handler: try { result = await <client function>(...) }
Handler(st, p) ==
  LET fn == ClientFn(st.proc[p].tool) IN
  IF fn = "checkConnection" THEN checkConnection(st, p)
  ELSE IF fn \in FormPostFns THEN aemFormPost(st, p)
  ELSE aemRequest(st, p)

\* ------------------------------------------------------------------------
\* Responses the network may deliver
\* ------------------------------------------------------------------------
Resp(kind, status, statusText, contentType, body) ==
  [kind |-> kind, status |-> status, statusText |-> statusText,
   contentType |-> contentType, body |-> body]

\* fetch() rejected: no response at all.
NetFail == Resp("netfail", 0, "", "", "")

\* response.ok
Ok(r) == r.kind = "http" /\ r.status >= 200 /\ r.status <= 299

\* response.json() succeeds on these bodies and throws on the others.
JsonBodies == {"{json}"}

ContentResponses ==
  { NetFail,
    Resp("http", 200, "OK", "application/json", "{json}"),
    Resp("http", 200, "OK", "text/html", "<html>"),
    Resp("http", 403, "Forbidden", "text/html", "denied") }

ProbeResponses ==
  { NetFail,
    Resp("http", 200, "OK", "application/json", "{json}"),
    Resp("http", 403, "Forbidden", "text/html", "denied") }

ImsResp(kind, status, statusText, body, a, e) ==
  [kind |-> kind, status |-> status, statusText |-> statusText,
   contentType |-> IF kind = "http" THEN "application/json" ELSE "", body |-> body,
   access_token |-> a, expires_in |-> e]

ImsResponses ==
  { ImsResp("netfail", 0, "", "", "", 0),
    ImsResp("http", 401, "Unauthorized", "invalid_client", "", 0) }
  \cup { ImsResp("http", 200, "OK", "{json}", a, e) : a \in AccessTokens, e \in ExpiresIn }

CsrfResp(kind, status, statusText, contentType, body, t) ==
  [kind |-> kind, status |-> status, statusText |-> statusText,
   contentType |-> contentType, body |-> body, token |-> t]

CsrfResponses ==
  { CsrfResp("netfail", 0, "", "", "", ""),
    CsrfResp("http", 403, "Forbidden", "text/html", "denied", "") }
  \cup { CsrfResp("http", 200, "OK", "application/json", "{json}", t) :
           t \in CsrfTokens \cup {""} }

\* ------------------------------------------------------------------------
\* Continuations at the arrival of a response
\* ------------------------------------------------------------------------
\* Mutant: the expiry is only ever moved forward, so an exchange answered
\* with a shorter lifetime stores its token and keeps the older expiry.
refreshAccessTokenResumeKeepLater(st, p, r) ==
  IF r.kind = "netfail" THEN AuthThrew(st, p, ErrNetwork)
  ELSE IF ~Ok(r)
  THEN AuthThrew(st, p, Err("IMS token refresh failed", r.status, "", r.body))
  ELSE LET new == ExpiryOf(now, r.expires_in)
           st1 == [st EXCEPT !.accessToken = r.access_token,
                             !.tokenExpiresAt = IF new > @ THEN new ELSE @]
       IN  AuthReturned(st1, p, BearerHeader(st1.accessToken))

\* Mutant: a rejected exchange drops the cached credential before throwing.
refreshAccessTokenResumeClearing(st, p, r) ==
  IF r.kind = "netfail" THEN AuthThrew(st, p, ErrNetwork)
  ELSE IF ~Ok(r)
  THEN AuthThrew([st EXCEPT !.accessToken = "", !.tokenExpiresAt = 0], p,
                 Err("IMS token refresh failed", r.status, "", r.body))
  ELSE LET st1 == [st EXCEPT !.accessToken = r.access_token,
                             !.tokenExpiresAt = ExpiryOf(now, r.expires_in)]
       IN  AuthReturned(st1, p, BearerHeader(st1.accessToken))

\* refreshAccessToken() after its fetch(), then ensureValidToken()'s
\* `return accessToken` and getAuthHeader()'s `Bearer ${token}`.
refreshAccessTokenResume(st, p, r) ==
  IF r.kind = "netfail" THEN AuthThrew(st, p, ErrNetwork)
  ELSE IF ~Ok(r)
  THEN AuthThrew(st, p, Err("IMS token refresh failed", r.status, "", r.body))
  ELSE LET st1 == [st EXCEPT !.accessToken = r.access_token,
                             !.tokenExpiresAt = ExpiryOf(now, r.expires_in)]
       IN  AuthReturned(st1, p, BearerHeader(st1.accessToken))

\* fetchCsrfToken() after its fetch(), then getCsrfToken()'s return.
fetchCsrfTokenResume(st, p, r) ==
  IF r.kind = "netfail" THEN fetchCsrfTokenCatch(st, p)
  ELSE IF ~Ok(r) THEN getCsrfTokenReturn([st EXCEPT !.proc[p].fetch = "failed"], p)
  ELSE getCsrfTokenReturn([st EXCEPT !.csrfToken = r.token, !.proc[p].fetch = "ok"], p)

\* aemRequest() after its fetch().
aemRequestResume(st, p, r) ==
  IF r.kind = "netfail" THEN ClientThrew(st, p, ErrNetwork)
  ELSE IF ~Ok(r)
  THEN ClientThrew(st, p, Err("AEM API error", r.status, r.statusText, r.body))
  ELSE IF r.contentType = "application/json"
  THEN IF r.body \in JsonBodies
       THEN ClientReturned(st, p, [type |-> "object", val |-> r.body, path |-> "", report |-> <<>>])
       ELSE ClientThrew(st, p, ErrJson)
  ELSE ClientReturned(st, p, [type |-> "string", val |-> r.body, path |-> "", report |-> <<>>])

FormErrorMsg(fn) ==
  CASE fn = "createPage" -> "AEM create page error"
    [] fn = "updatePageProperties" -> "AEM update page error"
    [] fn = "deletePage" -> "AEM delete page error"
    [] fn = "createContentFragment" -> "AEM create content fragment error"
    [] fn = "replicatePage" -> "AEM replication error"

\* createPage(), updatePageProperties(), deletePage(),
\* createContentFragment(), replicatePage() after aemFormPost() returned
\* the response.
formPostResume(st, p, r) ==
  LET fn == ClientFn(st.proc[p].tool) IN
  IF r.kind = "netfail" THEN ClientThrew(st, p, ErrNetwork)
  ELSE IF ~Ok(r)
  THEN ClientThrew(st, p, Err(FormErrorMsg(fn), r.status, "", r.body))
  ELSE IF fn \in FormJsonFns
  THEN IF r.body \in JsonBodies
       THEN ClientReturned(st, p, [type |-> "object", val |-> r.body, path |-> "", report |-> <<>>])
       ELSE ClientThrew(st, p, ErrJson)
  ELSE ClientReturned(st, p, [type |-> "object", val |-> "success",
                              path |-> st.proc[p].args.a1.s, report |-> <<>>])

\* checkConnection(): one probe's try block after its fetch().
probeResume(st, p, r) ==
  LET k == st.proc[p].probe
      name == ProbeName(k)
      caught == [probe |-> name, kind |-> "error", ok |-> FALSE]
      answered == [probe |-> name, kind |-> "response", ok |-> Ok(r)]
  IN  IF r.kind = "netfail" THEN ProbeDone(st, p, caught)
      ELSE IF k \in {1, 2} /\ Ok(r) /\ r.body \notin JsonBodies
      THEN ProbeDone(st, p, caught)
      ELSE ProbeDone(st, p, answered)

\* ------------------------------------------------------------------------
\* Actions
\* ------------------------------------------------------------------------
Init ==
  /\ env \in Envs
  /\ now = 0
  /\ ticks = 0
  /\ accessToken = env.AEM_ACCESS_TOKEN
  /\ tokenExpiresAt = 0
  /\ csrfToken = ""
  /\ proc = [p \in Procs |-> IdleProc]
  /\ returned = NoReturn
  /\ delivered = NoDelivery
  /\ lastExchange = NoExchange

\* The clock advances.
Tick ==
  /\ ticks < MaxTicks
  /\ \E d \in TickSteps : now' = now + d
  /\ ticks' = ticks + 1
  /\ returned' = NoReturn
  /\ delivered' = NoDelivery
  /\ UNCHANGED <<env, accessToken, tokenExpiresAt, csrfToken, proc, lastExchange>>

\* The argument values the model draws from.
PagePaths == {"/content/site/en", "/content/site/fr"}
FolderPaths == {"", "/content/dam/site"}
ModelPaths == {Undefined, Str(""), Str("/conf/site/models/article")}

\* An object whose i-th key is keys[i] and whose i-th value is any of
\* values[i]; a key whose value is undefined may as well be missing.
Objects(keys, values) ==
  { [i \in 1..Len(keys) |-> [k |-> keys[i], v |-> f[i]]] :
      f \in { g \in [1..Len(keys) -> UNION {values[i] : i \in 1..Len(keys)}] :
                \A i \in 1..Len(keys) : g[i] \in values[i] } }

\* aem_search: the handler passes { fulltext, path, type, limit, offset,
\* orderby }; searchContent is exported and takes further keys as well.
SearchBags ==
  { six \o extra :
      six \in Objects(<<"fulltext", "path", "type", "limit", "offset", "orderby">>,
                      << {Undefined, Str("sustainability")},
                         {Undefined, Str(""), Str("/content/mysite")},
                         {Undefined, Str("cq:Page")},
                         {Undefined, Num(0), Num(5)},
                         {Undefined, Num(7)},
                         {Undefined, Str("@jcr:created")} >>),
      extra \in { <<>>,
                  << [k |-> "property", v |-> Str("jcr:title")] >>,
                  << [k |-> "p.limit", v |-> Str("9")] >> } }

\* aem_update_page: the property map
PropertyBags ==
  Objects(<<"jcr:title", "jcr:description">>,
          << {Undefined, Str("New Title")}, {Undefined, Str("")} >>)

\* The arguments a tool may be invoked with.
ArgsOf(tool) ==
  CASE tool = "aem_search" -> { Args(Undefined, Undefined, b) : b \in SearchBags }
    [] tool = "aem_list_assets" ->
         { Args(Str(f), Undefined, <<>>) : f \in FolderPaths }
    [] tool = "aem_list_content_fragments" ->
         { Args(Str(f), m, <<>>) : f \in FolderPaths, m \in ModelPaths }
    [] tool = "aem_update_page" ->
         { Args(Str(pg), Undefined, b) : pg \in PagePaths, b \in PropertyBags }
    [] tool = "aem_check_connection" -> { NoArgs }
    [] OTHER -> { Args(Str(pg), Undefined, <<>>) : pg \in PagePaths }

\* One representative argument value per tool.
DefaultArgs(tool) ==
  CASE tool = "aem_search" ->
         Args(Undefined, Undefined,
              << [k |-> "fulltext", v |-> Str("sustainability")],
                 [k |-> "path", v |-> Str("/content/mysite")],
                 [k |-> "type", v |-> Undefined], [k |-> "limit", v |-> Undefined],
                 [k |-> "offset", v |-> Undefined], [k |-> "orderby", v |-> Undefined] >>)
    [] tool = "aem_list_assets" -> Args(Str("/content/dam/site"), Undefined, <<>>)
    [] tool = "aem_list_content_fragments" ->
         Args(Str("/content/dam/site"), Str("/conf/site/models/article"), <<>>)
    [] tool = "aem_update_page" ->
         Args(Str("/content/site/en"), Undefined,
              << [k |-> "jcr:title", v |-> Str("New Title")],
                 [k |-> "jcr:description", v |-> Undefined] >>)
    [] tool = "aem_check_connection" -> NoArgs
    [] OTHER -> Args(Str("/content/site/en"), Undefined, <<>>)

\* A tool is invoked with valid arguments: its handler runs up to the first
\* outbound request, or to its return.
Start(p, tool, args) ==
  /\ proc[p].pc = "idle"
  \* slots are interchangeable: an invocation takes the first free one
  /\ \A q \in 1..(p - 1) : proc[q].pc # "idle"
  /\ Commit(Handler([Cur EXCEPT !.proc[p] = [IdleProc EXCEPT !.tool = tool,
                                                            !.args = args]], p))
  /\ delivered' = NoDelivery
  /\ UNCHANGED <<env, now, ticks, lastExchange>>

\* A request tool is invoked.
Invoke(p) == \E tool \in RequestTools : Start(p, tool, DefaultArgs(tool))

\* Any registered tool is invoked while no other invocation is in flight.
InvokeAlone(p) ==
  /\ \A q \in Procs : proc[q].pc = "idle"
  /\ \E tool \in Tools : Start(p, tool, DefaultArgs(tool))

\* The identity endpoint answers (or the connection fails).
ImsResponse(p) ==
  /\ proc[p].pc = "imsWait"
  /\ \E r \in ImsResponses :
       /\ Commit(refreshAccessTokenResume(Cur, p, r))
       /\ delivered' = Delivery("ims", p, r)
       /\ lastExchange' = IF Ok(r)
                           THEN [done |-> TRUE, at |-> now, access_token |-> r.access_token,
                                 expires_in |-> r.expires_in]
                           ELSE lastExchange
  /\ UNCHANGED <<env, now, ticks>>

\* The CSRF endpoint answers the cache's fetch.
CsrfResponse(p) ==
  /\ proc[p].pc = "csrfWait"
  /\ \E r \in CsrfResponses :
       /\ Commit(fetchCsrfTokenResume(Cur, p, r))
       /\ delivered' = Delivery("csrf", p, r)
  /\ UNCHANGED <<env, now, ticks, lastExchange>>

\* The content system answers the primary call.
ContentResponse(p) ==
  /\ proc[p].pc = "contentWait"
  /\ \E r \in ContentResponses :
       /\ Commit(IF ClientFn(proc[p].tool) \in FormPostFns
                 THEN formPostResume(Cur, p, r)
                 ELSE aemRequestResume(Cur, p, r))
       /\ delivered' = Delivery("content", p, r)
  /\ UNCHANGED <<env, now, ticks, lastExchange>>

\* The content system answers a probe of the diagnostic check.
ProbeResponse(p) ==
  /\ proc[p].pc = "probeWait"
  /\ \E r \in ProbeResponses :
       /\ Commit(probeResume(Cur, p, r))
       /\ delivered' = Delivery("probe", p, r)
  /\ UNCHANGED <<env, now, ticks, lastExchange>>

\* The request tools, invocations overlapping.
Next ==
  \/ Tick
  \/ \E p \in Procs : Invoke(p)
  \/ \E p \in Procs : ImsResponse(p)
  \/ \E p \in Procs : CsrfResponse(p)
  \/ \E p \in Procs : ContentResponse(p)

Spec == Init /\ [][Next]_vars

\* All registered tools, the diagnostic tool included, one invocation at a
\* time.
SeqNext ==
  \/ Tick
  \/ \E p \in Procs : InvokeAlone(p)
  \/ \E p \in Procs : ImsResponse(p)
  \/ \E p \in Procs : CsrfResponse(p)
  \/ \E p \in Procs : ContentResponse(p)
  \/ \E p \in Procs : ProbeResponse(p)

SeqSpec == Init /\ [][SeqNext]_vars

\* The tools whose request is built from an argument object.
ArgTools == {"aem_search", "aem_list_assets", "aem_list_content_fragments", "aem_update_page"}

\* A tool of ArgTools is invoked with any of its argument values while no
\* other invocation is in flight.
InvokeWithArgs(p) ==
  /\ \A q \in Procs : proc[q].pc = "idle"
  /\ \E tool \in ArgTools : \E args \in ArgsOf(tool) : Start(p, tool, args)

\* Basic auth, fully configured.
ArgInit ==
  /\ Init
  /\ env.AEM_BASE_URL # "" /\ env.AEM_AUTH_TYPE = "basic"
  /\ env.AEM_USERNAME # "" /\ env.AEM_PASSWORD # ""

ArgNext ==
  \/ Tick
  \/ \E p \in Procs : InvokeWithArgs(p)
  \/ \E p \in Procs : CsrfResponse(p)
  \/ \E p \in Procs : ContentResponse(p)

\* The argument-built requests, over every argument value.
ArgSpec == ArgInit /\ [][ArgNext]_vars

\* The tool driven when the credential provider is under study: a read,
\* which resolves the credential once per invocation.
RefreshTools == {"aem_get_page"}

InvokeRefresh(p) == \E tool \in RefreshTools : Start(p, tool, DefaultArgs(tool))

\* Token mode with the base URL and the client settings configured, with
\* or without a static token.
RefreshInit ==
  /\ Init
  /\ env.AEM_BASE_URL # "" /\ env.AEM_AUTH_TYPE = "token"
  /\ env.AEM_CLIENT_ID # "" /\ env.AEM_CLIENT_SECRET # "" /\ env.AEM_SCOPES # ""

RefreshNext ==
  \/ Tick
  \/ \E p \in Procs : InvokeRefresh(p)
  \/ \E p \in Procs : ImsResponse(p)
  \/ \E p \in Procs : ContentResponse(p)

\* Overlapping invocations that resolve the bearer credential.
RefreshSpec == RefreshInit /\ [][RefreshNext]_vars

\* The tools driven when the CSRF cache is under study: a form post, which
\* reads and fills the cache, and the diagnostic check, which calls the
\* token endpoint on its own.
CsrfTools == {"aem_create_page", "aem_check_connection"}

InvokeCsrf(p) == \E tool \in CsrfTools : Start(p, tool, DefaultArgs(tool))

\* Basic auth, fully configured.
CsrfInit ==
  /\ Init
  /\ env.AEM_BASE_URL # "" /\ env.AEM_AUTH_TYPE = "basic"
  /\ env.AEM_USERNAME # "" /\ env.AEM_PASSWORD # ""

CsrfNext ==
  \/ Tick
  \/ \E p \in Procs : InvokeCsrf(p)
  \/ \E p \in Procs : CsrfResponse(p)
  \/ \E p \in Procs : ContentResponse(p)
  \/ \E p \in Procs : ProbeResponse(p)

\* Overlapping form posts and diagnostic checks.
CsrfSpec == CsrfInit /\ [][CsrfNext]_vars

\* Liveness: time keeps passing, and every handler run completes once its
\* event arrives (a run is one step). Whether a response arrives at all is
\* the network's choice: the code arms no timer and passes no abort signal
\* to fetch(), so no step of the program is enabled while a slot waits.
LiveSpec == SeqSpec /\ WF_vars(Tick)

TypeOK ==
  /\ env \in Envs
  /\ accessToken \in AccessTokens \cup {"", "static"}
  /\ csrfToken \in CsrfTokens \cup {""}
  /\ \A p \in Procs :
       proc[p].pc \in {"idle", "imsWait", "csrfWait", "contentWait", "probeWait"}

\* ------------------------------------------------------------------------
\* Shorthands used by the properties
\* ------------------------------------------------------------------------
WaitPcs == {"imsWait", "csrfWait", "contentWait", "probeWait"}

\* The credential resolver returned a Bearer value to slot p in this step:
\* the request built with it leaves in the same step.
ResolvedBearer(p) ==
  /\ proc'[p].pc \in {"csrfWait", "contentWait", "probeWait"}
  /\ proc'[p].req.auth.scheme = "Bearer"
  /\ (proc[p].pc # proc'[p].pc \/ proc[p].req # proc'[p].req)

\* ------------------------------------------------------------------------
\* C1. In bearer mode, concurrent callers of the credential resolver that
\* find the cached token absent or expired share one identity exchange:
\* at no time are two exchanges outstanding.
\* ------------------------------------------------------------------------
C1_SingleExchangeInFlight ==
  Cardinality({p \in Procs : proc[p].pc = "imsWait"}) <= 1

\* ------------------------------------------------------------------------
\* C2. Concurrent mutating invocations that find the CSRF cache empty share
\* one request to /libs/granite/csrf/token.json: at no time are two fetches
\* of the cache outstanding.
\* ------------------------------------------------------------------------
C2_SingleCsrfFetchInFlight ==
  Cardinality({p \in Procs : proc[p].pc = "csrfWait"}) <= 1

\* ------------------------------------------------------------------------
\* C3. Whenever the credential resolver returns a Bearer value, the stored
\* expiry is still ahead: now < tokenExpiresAt at the moment of return, for
\* every expires_in the identity endpoint may answer.
\* ------------------------------------------------------------------------
C3_BearerNotExpiredAtReturn ==
  [][\A p \in Procs : ResolvedBearer(p) => now' < tokenExpiresAt']_vars

\* ------------------------------------------------------------------------
\* C4. After a successful identity exchange answering expires_in = E at time
\* t the stored expiry is t + (E - 60) seconds. A resolve call strictly
\* before the stored expiry issues no exchange and leaves token and expiry
\* as they are; a resolve call at or after it issues an exchange instead of
\* using the cached token.
\* ------------------------------------------------------------------------
C4_StoredExpiry ==
  lastExchange.done =>
    /\ tokenExpiresAt = lastExchange.at + (lastExchange.expires_in - 60) * 1000
    /\ accessToken = lastExchange.access_token

\* Slot p started an identity exchange in this step.
StartedExchange(p) == proc'[p].pc = "imsWait" /\ proc'[p] # proc[p]

\* Slot p obtained a Bearer value without an exchange in this step.
UsedCachedToken(p) == ResolvedBearer(p) /\ proc[p].pc # "imsWait"

C4_ResolveStep(p) ==
  /\ StartedExchange(p) => (accessToken = "" \/ now >= tokenExpiresAt)
  /\ UsedCachedToken(p) =>
       /\ accessToken # "" /\ now < tokenExpiresAt
       /\ accessToken' = accessToken /\ tokenExpiresAt' = tokenExpiresAt
       /\ proc'[p].req.auth.token = accessToken

C4_ExpiryAndRefresh ==
  [] C4_StoredExpiry /\ [][\A p \in Procs : C4_ResolveStep(p)]_vars

\* An exchange answered expires_in = 120 at t, and a resolve call at
\* t + 61 s has started the next exchange.
C4_Witness ==
  /\ lastExchange.done /\ lastExchange.expires_in = 120
  /\ tokenExpiresAt = lastExchange.at + 60000
  /\ now = lastExchange.at + 61000
  /\ \E p \in Procs : proc[p].pc = "imsWait" /\ proc[p].sentAt = now

\* ------------------------------------------------------------------------
\* C5. Every handler returns an envelope, whatever the client call did: the
\* envelope is flagged isError with text "Error: " + message exactly when
\* the client call threw; otherwise it carries the payload, literally if it
\* is a string and as indented JSON if not, without the flag.
\* ------------------------------------------------------------------------
C5_HandlerEnvelope ==
  returned.tool # "" =>
    /\ returned.result # NoResult
    /\ returned.result.isError = returned.threw
    /\ returned.threw =>
         /\ returned.result.prefix = "Error: "
         /\ returned.result.err # NoErr
    /\ ~returned.threw =>
         /\ returned.result.prefix = ""
         /\ returned.result.data # NoPayload
         /\ returned.result.format =
              IF returned.result.data.type = "string" THEN "literal" ELSE "json-indent-2"

\* A handler wrapped a non-success content response into an error envelope.
C5_Witness ==
  /\ returned.tool = "aem_get_asset"
  /\ returned.threw /\ returned.result.isError
  /\ returned.result.err.msg = "AEM API error" /\ returned.result.err.status = 403

\* ------------------------------------------------------------------------
\* C7. A content request carries the CSRF-Token header exactly when it is
\* mutating and the cache resolved a non-empty token; when this
\* invocation's token fetch failed, the token resolves to empty, the header
\* is omitted and the invocation goes on to its primary call.
\* ------------------------------------------------------------------------
C7_HeaderIffToken(p) ==
  proc[p].pc = "contentWait" =>
    /\ (proc[p].req.csrfHeader # "") = (IsMutation(proc[p].req.method) /\ proc[p].csrf # "")
    /\ proc[p].req.csrfHeader # "" => proc[p].req.csrfHeader = proc[p].csrf

C7_FailedFetchResolvesEmpty(p) ==
  proc[p].fetch = "failed" =>
    /\ proc[p].csrf = ""
    /\ proc[p].pc = "contentWait" => proc[p].req.csrfHeader = ""

C7_FailedFetchGoesOn(p) ==
  proc[p].fetch = "failed" =>
    proc[p].ctx = "main" /\ proc[p].pc \in {"imsWait", "contentWait"}

C7_CsrfHeaderPolicy ==
  \A p \in Procs :
    C7_HeaderIffToken(p) /\ C7_FailedFetchResolvesEmpty(p) /\ C7_FailedFetchGoesOn(p)

\* ------------------------------------------------------------------------
\* C8. Once a non-empty CSRF token is cached it never changes, the request
\* path sends no further request to the token endpoint, and every mutating
\* request issued from then on carries exactly that token.
\* ------------------------------------------------------------------------
C8_CacheKept == csrfToken' = csrfToken

C8_NoNewFetch == \A p \in Procs : ~(proc'[p].pc = "csrfWait" /\ proc[p].pc # "csrfWait")

C8_NewMutationCarriesToken ==
  \A p \in Procs :
    (proc'[p].pc = "contentWait" /\ proc[p].pc # "contentWait"
       /\ IsMutation(proc'[p].req.method))
    => proc'[p].req.csrfHeader = csrfToken

C8_CachedTokenStable ==
  [][csrfToken # "" => C8_CacheKept /\ C8_NoNewFetch /\ C8_NewMutationCarriesToken]_vars

\* ------------------------------------------------------------------------
\* C9. With AEM_BASE_URL unset every tool fails with the configuration
\* error before any outbound call: no slot ever waits on a request, no
\* identity exchange happens and the token caches stay as initialised.
\* ------------------------------------------------------------------------
C9_NoBaseUrlFailsFast ==
  env.AEM_BASE_URL = "" =>
    /\ \A p \in Procs : proc[p] = IdleProc
    /\ csrfToken = ""
    /\ accessToken = env.AEM_ACCESS_TOKEN /\ tokenExpiresAt = 0
    /\ ~lastExchange.done
    /\ returned.tool # "" =>
         /\ returned.threw /\ returned.result.isError
         /\ returned.result.err = ErrBaseUrl

\* A mutating tool failed on the missing base URL although the credentials
\* are fully configured.
C9_Witness ==
  /\ env.AEM_BASE_URL = ""
  /\ env.AEM_AUTH_TYPE = "basic" /\ env.AEM_USERNAME # "" /\ env.AEM_PASSWORD # ""
  /\ returned.tool = "aem_update_content_fragment"
  /\ returned.result.isError

\* ------------------------------------------------------------------------
\* C10. With a setting of the active auth mode unset (basic: username or
\* password; token: client id, client secret or scopes) no request is sent
\* to the identity endpoint or to the content system.
\* Original: ... and the result of every operation is an error.
\* Amended: ... and the result of every request tool is a configuration
\* error; the diagnostic tool, when the base URL is set, returns its
\* unflagged report with all four probes recorded as failed.
\* ------------------------------------------------------------------------
AuthSettingsMissing ==
  IF env.AEM_AUTH_TYPE = "token"
  THEN env.AEM_CLIENT_ID = "" \/ env.AEM_CLIENT_SECRET = "" \/ env.AEM_SCOPES = ""
  ELSE env.AEM_USERNAME = "" \/ env.AEM_PASSWORD = ""

C10_NothingSent ==
  /\ \A p \in Procs : proc[p].pc = "idle"
  /\ ~lastExchange.done
  /\ env.AEM_AUTH_TYPE = "token" => (accessToken = "" \/ now >= tokenExpiresAt)

C10_Original ==
  AuthSettingsMissing =>
    /\ C10_NothingSent
    /\ returned.tool # "" => returned.result.isError

C10_AuthError ==
  IF env.AEM_BASE_URL = "" THEN ErrBaseUrl
  ELSE IF env.AEM_AUTH_TYPE = "token" THEN ErrImsConfig
  ELSE ErrBasic

C10_Amended ==
  AuthSettingsMissing =>
    /\ C10_NothingSent
    /\ returned.tool # "" =>
         IF returned.tool = "aem_check_connection" /\ env.AEM_BASE_URL # ""
         THEN /\ ~returned.result.isError
              /\ Len(returned.result.data.report) = NumProbes
              /\ \A i \in 1..NumProbes :
                   /\ returned.result.data.report[i].probe = ProbeName(i)
                   /\ returned.result.data.report[i].kind = "error"
         ELSE /\ returned.result.isError
              /\ returned.result.err = C10_AuthError

\* A mutating tool failed on the missing password: its token fetch was
\* skipped and its primary call was never sent.
C10_Witness ==
  /\ env.AEM_BASE_URL # "" /\ env.AEM_AUTH_TYPE = "basic"
  /\ env.AEM_USERNAME # "" /\ env.AEM_PASSWORD = ""
  /\ returned.tool = "aem_create_page"
  /\ returned.result.isError /\ returned.result.err = ErrBasic

\* ------------------------------------------------------------------------
\* C11. Whenever the content system answers a content request with a
\* non-success status, the invocation fails with an error that carries the
\* response's status code, status text and raw body, and the invocation
\* sends nothing further; this for aemRequest and for the form posts alike.
\* ------------------------------------------------------------------------
C11_NonSuccessCarriesAll ==
  (delivered.from = "content" /\ delivered.kind = "http" /\ ~Ok(delivered)) =>
    /\ returned.tool = delivered.tool
    /\ returned.threw /\ returned.result.isError
    /\ returned.result.err.status = delivered.status
    /\ returned.result.err.statusText = delivered.statusText
    /\ returned.result.err.body = delivered.body
    /\ proc[delivered.slot].pc = "idle"

\* ------------------------------------------------------------------------
\* C12. Whenever the content system answers with a success status an
\* operation that returns the upstream payload (every aemRequest caller,
\* createPage and createContentFragment), the result is a success: the
\* parsed value when the content type is JSON, the raw text otherwise.
\* ------------------------------------------------------------------------
C12_PayloadFns ==
  {ClientFn(t) : t \in Tools}
    \ {"checkConnection", "updatePageProperties", "deletePage", "replicatePage"}

C12_SuccessPayload ==
  (delivered.from = "content" /\ Ok(delivered)
     /\ ClientFn(delivered.tool) \in C12_PayloadFns) =>
    /\ returned.tool = delivered.tool
    /\ ~returned.threw /\ ~returned.result.isError
    /\ returned.result.data.val = delivered.body
    /\ returned.result.data.type =
         IF delivered.contentType = "application/json" THEN "object" ELSE "string"

\* ------------------------------------------------------------------------
\* C13. The diagnostic check returns its report with one entry per probe
\* (csrf, currentUser, contentAccess, damAccess), whatever each probe's
\* outcome: the entry of a probe is decided by that probe's own outcome and
\* earlier entries are never touched.
\* Original: ... in every configuration state.
\* Amended: ... in every configuration state in which the base URL is set;
\* with the base URL unset the check fails with the configuration error
\* before its first probe.
\* ------------------------------------------------------------------------
C13_FullReport ==
  /\ ~returned.threw /\ ~returned.result.isError
  /\ Len(returned.result.data.report) = NumProbes
  /\ \A i \in 1..NumProbes : returned.result.data.report[i].probe = ProbeName(i)

C13_AlwaysReport ==
  returned.tool = "aem_check_connection" => C13_FullReport

C13_ReportWhenBaseUrl ==
  returned.tool = "aem_check_connection" =>
    IF env.AEM_BASE_URL = ""
    THEN returned.threw /\ returned.result.isError /\ returned.result.err = ErrBaseUrl
    ELSE C13_FullReport

\* The report of slot p after a step: still in the slot, or just returned.
C13_ReportAfter(p) ==
  IF proc'[p].pc = "idle" THEN returned'.result.data.report ELSE proc'[p].report

\* A response reached the check running in slot p while probe k was open.
C13_EntryPerProbe ==
  \A p \in Procs :
    (proc[p].tool = "aem_check_connection" /\ delivered'.slot = p) =>
      LET k == proc[p].probe
          old == proc[p].report
          new == C13_ReportAfter(p)
          closed == delivered'.from = "probe" \/ ~Ok(delivered')
      IN  /\ Len(old) = k - 1
          /\ Len(new) >= Len(old)
          /\ \A i \in 1..Len(old) : new[i] = old[i]
          /\ closed =>
               /\ Len(new) >= k
               /\ new[k].probe = ProbeName(k)
               /\ new[k].kind =
                    (IF delivered'.from = "probe" /\ delivered'.kind = "http"
                     THEN "response" ELSE "error")
               /\ new[k].ok = (delivered'.from = "probe" /\ Ok(delivered'))
          \* the credential arrived: probe k's request leaves
          /\ ~closed => new = old /\ proc'[p].pc = "probeWait" /\ proc'[p].probe = k

C13_Original == [] C13_AlwaysReport /\ [][C13_EntryPerProbe]_vars

C13_Amended == [] C13_ReportWhenBaseUrl /\ [][C13_EntryPerProbe]_vars

\* The content-read probe was answered 403 and the other three succeeded.
C13_Witness ==
  /\ returned.tool = "aem_check_connection"
  /\ Len(returned.result.data.report) = NumProbes
  /\ \A i \in 1..NumProbes :
       /\ returned.result.data.report[i].kind = "response"
       /\ returned.result.data.report[i].ok = (i # 3)

\* ------------------------------------------------------------------------
\* C14. In token mode with only the static AEM_ACCESS_TOKEN configured (no
\* client id, secret or scopes), every outbound request is authorized with
\* "Bearer <that token>", the identity endpoint is never contacted, and a
\* request tool returns only once its content request was answered.
\* ------------------------------------------------------------------------
StaticTokenOnly ==
  /\ env.AEM_BASE_URL # "" /\ env.AEM_AUTH_TYPE = "token"
  /\ env.AEM_ACCESS_TOKEN # ""
  /\ env.AEM_CLIENT_ID = "" /\ env.AEM_CLIENT_SECRET = "" /\ env.AEM_SCOPES = ""

C14_StaticTokenAuthorizes ==
  StaticTokenOnly =>
    /\ \A p \in Procs :
         /\ proc[p].pc # "imsWait"
         /\ proc[p].pc \in {"csrfWait", "contentWait", "probeWait"}
              => proc[p].req.auth = BearerHeader(env.AEM_ACCESS_TOKEN)
    /\ returned.tool # "" =>
         /\ returned.result.err \notin ConfigErrors
         /\ returned.tool # "aem_check_connection" => delivered.from = "content"

\* ------------------------------------------------------------------------
\* C15. Every dispatched operation eventually returns: an invocation that
\* waits on an outbound call (identity exchange, CSRF fetch, content
\* request or probe) eventually leaves its slot, even when the response
\* never arrives.
\* ------------------------------------------------------------------------
C15_EventuallyReturns ==
  \A p \in Procs : (proc[p].pc \in WaitPcs) ~> (proc[p].pc = "idle")

\* ------------------------------------------------------------------------
\* Shorthands for the queries and forms of the requests
\* ------------------------------------------------------------------------
\* The pair key=value is in q.
Has(q, key, value) == \E i \in 1..Len(q) : q[i].k = key /\ q[i].v = value

\* How often key occurs in q.
Count(q, key) == Cardinality({i \in 1..Len(q) : q[i].k = key})

\* The object has a value for key.
Supplied(entries, key) == Get(entries, key).t # "undefined"

\* The decimal text of the numbers the argument values use.
Decimal(n) ==
  CASE n = 0 -> "0" [] n = 5 -> "5" [] n = 7 -> "7" [] n = 20 -> "20" [] n = 50 -> "50"

\* The search request slot p has outstanding, if any.
Searching(p) == proc[p].pc = "contentWait" /\ proc[p].tool = "aem_search"

\* ------------------------------------------------------------------------
\* C16. The query searchContent emits contains p.limit = the limit argument
\* (20 when absent) and p.offset = the offset argument (0 when absent),
\* contains each of path, type, fulltext, orderby exactly when supplied,
\* contains every other supplied pair verbatim, and has no recognized key
\* twice nor under its argument name limit/offset.
\* Original: as above, for every argument bag.
\* Amended: path, type, fulltext, orderby are contained exactly when
\* supplied with a non-empty value, and a bag that itself carries the key
\* p.limit (p.offset) has that value in place of the limit (offset).
\* ------------------------------------------------------------------------
C16_Paging(b, q, key, arg, default) ==
  Has(q, key, IF Supplied(b, arg) THEN Decimal(Get(b, arg).n) ELSE default)

C16_PassedVerbatim(b, q) ==
  \A i \in 1..Len(b) :
    (b[i].k \notin RecognizedKeys /\ b[i].v.t # "undefined") => Has(q, b[i].k, b[i].v.s)

C16_NoDuplicates(q) ==
  /\ \A i \in 1..Len(q) : Count(q, q[i].k) = 1
  /\ Count(q, "limit") = 0 /\ Count(q, "offset") = 0

C16_Original ==
  \A p \in Procs :
    Searching(p) =>
      LET b == proc[p].args.params
          q == proc[p].req.query
      IN  /\ C16_Paging(b, q, "p.limit", "limit", "20")
          /\ C16_Paging(b, q, "p.offset", "offset", "0")
          /\ \A key \in {"path", "type", "fulltext", "orderby"} :
               IF Supplied(b, key) THEN Has(q, key, Get(b, key).s) ELSE Count(q, key) = 0
          /\ C16_PassedVerbatim(b, q)
          /\ C16_NoDuplicates(q)

C16_Amended ==
  \A p \in Procs :
    Searching(p) =>
      LET b == proc[p].args.params
          q == proc[p].req.query
      IN  /\ Supplied(b, "p.limit") \/ C16_Paging(b, q, "p.limit", "limit", "20")
          /\ Supplied(b, "p.offset") \/ C16_Paging(b, q, "p.offset", "offset", "0")
          /\ \A key \in {"path", "type", "fulltext", "orderby"} :
               IF Supplied(b, key) /\ Get(b, key).s # ""
               THEN Has(q, key, Get(b, key).s)
               ELSE Count(q, key) = 0
          /\ C16_PassedVerbatim(b, q)
          /\ C16_NoDuplicates(q)

\* The search for {fulltext, path}, limit 0 given and the rest absent.
C16_Witness ==
  \E p \in Procs :
    /\ Searching(p)
    /\ Get(proc[p].args.params, "limit") = Num(0)
    /\ ~Supplied(proc[p].args.params, "type")
    /\ proc[p].req.query =
         << [k |-> "p.limit", v |-> "0"], [k |-> "p.offset", v |-> "0"],
            [k |-> "path", v |-> "/content/mysite"],
            [k |-> "fulltext", v |-> "sustainability"] >>

\* ------------------------------------------------------------------------
\* C17. The search listContentFragments issues has type = dam:Asset,
\* p.limit = 50, property = jcr:content/contentFragment and
\* property.value = true, and path = the folder; it has
\* property.1_property = jcr:content/data/cq:model and
\* property.1_value = <model path> exactly when a non-empty model path is
\* supplied.
\* Original: path = the folder always.
\* Amended: path = the folder when the folder path is non-empty; for the
\* empty folder path the query has no path key.
\* ------------------------------------------------------------------------
ListingFragments(p) ==
  proc[p].pc = "contentWait" /\ proc[p].tool = "aem_list_content_fragments"

C17_BaseFilter(q) ==
  /\ Has(q, "type", "dam:Asset") /\ Count(q, "type") = 1
  /\ Has(q, "p.limit", "50") /\ Count(q, "p.limit") = 1
  /\ Has(q, "property", "jcr:content/contentFragment") /\ Count(q, "property") = 1
  /\ Has(q, "property.value", "true") /\ Count(q, "property.value") = 1

C17_ModelFilter(q, model) ==
  IF model.t = "string" /\ model.s # ""
  THEN /\ Has(q, "property.1_property", "jcr:content/data/cq:model")
       /\ Has(q, "property.1_value", model.s)
       /\ Count(q, "property.1_property") = 1 /\ Count(q, "property.1_value") = 1
  ELSE Count(q, "property.1_property") = 0 /\ Count(q, "property.1_value") = 0

C17_Original ==
  \A p \in Procs :
    ListingFragments(p) =>
      LET q == proc[p].req.query IN
      /\ proc[p].req.url = "/bin/querybuilder.json" /\ proc[p].req.method = "GET"
      /\ Has(q, "path", proc[p].args.a1.s) /\ Count(q, "path") = 1
      /\ C17_BaseFilter(q)
      /\ C17_ModelFilter(q, proc[p].args.a2)

C17_Amended ==
  \A p \in Procs :
    ListingFragments(p) =>
      LET q == proc[p].req.query IN
      /\ proc[p].req.url = "/bin/querybuilder.json" /\ proc[p].req.method = "GET"
      /\ IF proc[p].args.a1.s # ""
         THEN Has(q, "path", proc[p].args.a1.s) /\ Count(q, "path") = 1
         ELSE Count(q, "path") = 0
      /\ C17_BaseFilter(q)
      /\ C17_ModelFilter(q, proc[p].args.a2)

\* A listing restricted to a model: both filter pairs are in the query.
C17_Witness ==
  \E p \in Procs :
    /\ ListingFragments(p)
    /\ proc[p].args.a2 = Str("/conf/site/models/article")
    /\ proc[p].req.query =
         << [k |-> "p.limit", v |-> "50"], [k |-> "p.offset", v |-> "0"],
            [k |-> "path", v |-> "/content/dam/site"], [k |-> "type", v |-> "dam:Asset"],
            [k |-> "property", v |-> "jcr:content/contentFragment"],
            [k |-> "property.value", v |-> "true"],
            [k |-> "property.1_property", v |-> "jcr:content/data/cq:model"],
            [k |-> "property.1_value", v |-> "/conf/site/models/article"] >>

\* ------------------------------------------------------------------------
\* C18. updatePageProperties posts one form to {path}/jcr:content whose
\* body has _charset_ and one field per property whose value is not
\* absent, and none for an absent one; a success response yields
\* {success: true, path} whatever its body, a non-success response yields
\* an error envelope carrying the response's status code; either way the
\* invocation ends with that response.
\* ------------------------------------------------------------------------
UpdatingPage(p) ==
  proc[p].pc = "contentWait" /\ proc[p].tool = "aem_update_page"

C18_FormPosted ==
  \A p \in Procs :
    UpdatingPage(p) =>
      LET b == proc[p].args.params
          f == proc[p].req.form
      IN  /\ proc[p].req.url = "{path}/jcr:content" /\ proc[p].req.method = "POST"
          /\ Has(f, "_charset_", "utf-8")
          /\ \A i \in 1..Len(b) :
               IF b[i].v.t = "undefined"
               THEN Count(f, b[i].k) = 0
               ELSE Has(f, b[i].k, b[i].v.s) /\ Count(f, b[i].k) = 1
          /\ Len(f) = 1 + Cardinality({i \in 1..Len(b) : b[i].v.t # "undefined"})

C18_Answered ==
  \A p \in Procs :
    (UpdatingPage(p) /\ delivered'.slot = p /\ delivered'.kind = "http") =>
      /\ delivered'.from = "content"
      /\ proc'[p].pc = "idle" /\ returned'.tool = "aem_update_page"
      /\ IF Ok(delivered')
         THEN /\ ~returned'.result.isError
              /\ returned'.result.data.val = "success"
              /\ returned'.result.data.path = proc[p].args.a1.s
              /\ returned'.result.format = "json-indent-2"
         ELSE /\ returned'.result.isError
              /\ returned'.result.err.status = delivered'.status

C18_UpdatePageProperties == [] C18_FormPosted /\ [][C18_Answered]_vars

\* {"jcr:title": "New Title"} with the description absent was posted and
\* answered with a success status and an HTML body.
C18_Witness ==
  /\ returned.tool = "aem_update_page"
  /\ delivered.from = "content" /\ delivered.status = 200
  /\ delivered.contentType = "text/html"
  /\ returned.result.data.val = "success"
  /\ returned.result.data.path = "/content/site/fr"

\* ------------------------------------------------------------------------
\* C19. When the identity endpoint answers the exchange with a non-success
\* status, the resolve call fails with an error that carries the status
\* code and the response body, and the cached access token and its expiry
\* are exactly what they were before the answer.
\* ------------------------------------------------------------------------
ExchangeRejected ==
  delivered'.from = "ims" /\ delivered'.kind = "http" /\ ~Ok(delivered')

\* How the failure of the resolve call shows in the caller of slot p: the
\* primary call lets it reach the handler, the CSRF fetch and a probe catch
\* it.
C19_ResolveFailed(p) ==
  CASE proc[p].ctx = "main" ->
         /\ proc'[p].pc = "idle"
         /\ returned'.threw /\ returned'.result.isError
         /\ returned'.result.err.msg = "IMS token refresh failed"
         /\ returned'.result.err.status = delivered'.status
         /\ returned'.result.err.body = delivered'.body
    [] proc[p].ctx = "csrf" ->
         proc'[p].pc = "idle" \/ (proc'[p].fetch = "failed" /\ proc'[p].ctx = "main")
    [] proc[p].ctx = "probe" ->
         LET k == proc[p].probe
             report == IF proc'[p].pc = "idle" THEN returned'.result.data.report
                       ELSE proc'[p].report
         IN  report[k].kind = "error"

C19_FailedRefreshKeepsCredential ==
  [][ExchangeRejected =>
       /\ accessToken' = accessToken
       /\ tokenExpiresAt' = tokenExpiresAt
       /\ lastExchange' = lastExchange
       /\ C19_ResolveFailed(delivered'.slot)]_vars

\* An exchange was rejected while a token from an earlier exchange was
\* cached and expired: the handler returned the error and the token stayed.
C19_Witness ==
  /\ delivered.from = "ims" /\ delivered.status = 401
  /\ accessToken = "at1" /\ lastExchange.done /\ now >= tokenExpiresAt
  /\ returned.threw /\ returned.result.err.status = 401
  /\ returned.result.err.body = "invalid_client"

\* ------------------------------------------------------------------------
\* C20. A rejected identity exchange is not retried: once the identity
\* endpoint has answered an invocation's exchange with a non-success
\* status, that invocation sends no further request to the identity
\* endpoint.
\* ------------------------------------------------------------------------
C20_RejectedNotRetried ==
  [][ExchangeRejected => proc'[delivered'.slot].pc # "imsWait"]_vars

\* ------------------------------------------------------------------------
\* C21. Under any interleaving of overlapping exchanges the stored token
\* and the stored expiry come from the same response of the identity
\* endpoint: they are the initial pair until the first successful answer,
\* afterwards the token and the expiry of the latest successful answer, and
\* they change only together, in the step that delivers such an answer.
\* ------------------------------------------------------------------------
C21_PairOfOneExchange ==
  IF lastExchange.done
  THEN /\ accessToken = lastExchange.access_token
       /\ tokenExpiresAt = lastExchange.at + (lastExchange.expires_in - 60) * 1000
  ELSE /\ accessToken = env.AEM_ACCESS_TOKEN
       /\ tokenExpiresAt = 0

C21_WrittenTogether ==
  (accessToken' # accessToken \/ tokenExpiresAt' # tokenExpiresAt) =>
    /\ delivered'.from = "ims" /\ Ok(delivered')
    /\ lastExchange'.done /\ lastExchange'.at = now
    /\ accessToken' = lastExchange'.access_token
    /\ tokenExpiresAt' = now + (lastExchange'.expires_in - 60) * 1000

C21_TokenAndExpiryPaired == [] C21_PairOfOneExchange /\ [][C21_WrittenTogether]_vars

\* Two exchanges overlapped and were answered differently: the second
\* answer (at2, 30 s) replaced the pair of the first (at1, 120 s).
C21_Witness ==
  /\ delivered.from = "ims" /\ delivered.status = 200
  /\ accessToken = "at2" /\ lastExchange.expires_in = 30
  /\ \E p \in Procs :
       /\ p # delivered.slot
       /\ proc[p].pc = "contentWait"
       /\ proc[p].req.auth = BearerHeader("at1")
       /\ proc[p].sentAt = lastExchange.at

\* ------------------------------------------------------------------------
\* C22. A failed CSRF-token fetch (non-success response, network failure,
\* or a credential failure during the fetch) leaves the cache empty; a
\* mutating invocation that finds the cache empty attempts the fetch before
\* its primary call, and one that finds a token does not; no step of the
\* diagnostic check changes the cache.
\* ------------------------------------------------------------------------
\* Slot p's fetchCsrfToken() failed in this step.
C22_FetchFailed(p) ==
  /\ delivered'.slot = p /\ ~Ok(delivered')
  /\ \/ delivered'.from = "csrf"
     \/ delivered'.from = "ims" /\ proc[p].ctx = "csrf"

\* A mutating invocation left slot p's idle state with a request in this
\* step.
C22_MutationStarted(p) ==
  /\ proc[p].pc = "idle" /\ proc'[p].pc # "idle"
  /\ IsMutation(MethodOf(ClientFn(proc'[p].tool)))

\* The diagnostic check took this step in slot p.
C22_CheckStepped(p) ==
  \/ proc[p].tool = "aem_check_connection" /\ delivered'.slot = p
  \/ proc[p].pc = "idle" /\ proc'[p].tool = "aem_check_connection"
  \/ proc[p].pc = "idle" /\ delivered' = NoDelivery
       /\ returned'.tool = "aem_check_connection"

C22_CacheStep ==
  \A p \in Procs :
    /\ C22_FetchFailed(p) => csrfToken' = ""
    /\ C22_MutationStarted(p) =>
         IF csrfToken = "" THEN proc'[p].ctx = "csrf" ELSE proc'[p].ctx = "main"
    /\ C22_CheckStepped(p) => csrfToken' = csrfToken

C22_FailedFetchLeavesCacheEmpty == [][C22_CacheStep]_vars

====
